---------------------------- MODULE Spec2Model ----------------------------
(***************************************************************************)
(* W-2 ingestion pipeline of backend/app/w2_parser.py and                  *)
(* backend/app/routes/w2_routes.py.                                        *)
(*                                                                         *)
(* Texts are strings of characters.  The regular expressions of the parser *)
(* are written as sequences of elements (a literal, or a character class   *)
(* with a repetition range, greedy or lazy) and matched by a backtracking  *)
(* matcher that prefers alternatives in the order Python's re does, with   *)
(* re.I, leftmost match first.                                             *)
(***************************************************************************)
EXTENDS Integers, Sequences, FiniteSets, TLC

VARIABLES
    caps,          \* which optional libraries the import block found
    pc,            \* position of the one call being served
    req,           \* the upload: content type, file name suffix, document
    raw,           \* the text acquired so far (parse_file's local raw)
    rawSrc,        \* where raw came from: "text_layer", "ocr" or "none"
    path,          \* the branch parse_file took: "pdf", "image" or "none"
    image,         \* normalization stages the image handed to OCR carries
    rotation,      \* degrees the image was rotated by ("none": not rotated)
    calls,         \* the functions entered so far, in order
    fallbackTried, \* the PDF OCR fallback block (lines 275-283) was entered
    ocr,           \* how the last call of _ocr ended ("not_called" at first)
    exc,           \* the exception in flight ("none" when there is none)
    result,        \* the record _parse_text returned
    modality,      \* second component of parse_file's return value
    tmpFiles,      \* temporary files that exist on disk
    response,      \* what upload_w2 answered
    other          \* the locals of a second call of parse_file, suspended

vars == << caps, pc, req, raw, rawSrc, path, image, rotation, calls,
           fallbackTried, ocr, exc, result, modality, tmpFiles, response,
           other >>

-----------------------------------------------------------------------------
(* Characters *)

Digits == {"0", "1", "2", "3", "4", "5", "6", "7", "8", "9"}

Lowers == {"a", "b", "c", "d", "e", "f", "g", "h", "i", "j", "k", "l", "m",
           "n", "o", "p", "q", "r", "s", "t", "u", "v", "w", "x", "y", "z"}

Uppers == {"A", "B", "C", "D", "E", "F", "G", "H", "I", "J", "K", "L", "M",
           "N", "O", "P", "Q", "R", "S", "T", "U", "V", "W", "X", "Y", "Z"}

ToLower == [c \in Uppers |->
    CASE c = "A" -> "a" [] c = "B" -> "b" [] c = "C" -> "c" [] c = "D" -> "d"
      [] c = "E" -> "e" [] c = "F" -> "f" [] c = "G" -> "g" [] c = "H" -> "h"
      [] c = "I" -> "i" [] c = "J" -> "j" [] c = "K" -> "k" [] c = "L" -> "l"
      [] c = "M" -> "m" [] c = "N" -> "n" [] c = "O" -> "o" [] c = "P" -> "p"
      [] c = "Q" -> "q" [] c = "R" -> "r" [] c = "S" -> "s" [] c = "T" -> "t"
      [] c = "U" -> "u" [] c = "V" -> "v" [] c = "W" -> "w" [] c = "X" -> "x"
      [] c = "Y" -> "y" [] c = "Z" -> "z"]

LowerChar(c) == IF c \in Uppers THEN ToLower[c] ELSE c

\* \s of the re module, as far as the characters of the model go
Space == {" ", "\n", "\t"}

\* . of the re module (no DOTALL): anything but a line break
NotDot == {"\n"}

CharAt(s, i) == SubSeq(s, i, i)

Last(s) == s[Len(s)]

Range(s) == {s[i] : i \in DOMAIN s}

Min(S) == CHOOSE x \in S : \A y \in S : x <= y

Max(S) == CHOOSE x \in S : \A y \in S : x >= y

\* F(v), with v evaluated once: what a local variable of the code is
Bind(v, F(_)) == CHOOSE r \in {F(x) : x \in {v}} : TRUE

\* The string F(s, lo) F(s, lo + 1) ... F(s, hi): what a pass over the
\* characters lo..hi of s writes, F giving the output for one position.
RECURSIVE Build(_, _, _, _)
Build(F(_, _), s, lo, hi) ==
    IF lo > hi THEN ""
    ELSE IF lo = hi THEN F(s, lo)
    ELSE Build(F, s, lo, (lo + hi) \div 2) \o Build(F, s, (lo + hi) \div 2 + 1, hi)

\* s.lower()
Lower(s) == Build(LAMBDA t, i : LowerChar(CharAt(t, i)), s, 1, Len(s))

-----------------------------------------------------------------------------
(* Regular expressions: re.search(pattern, txt, re.I) *)

\* One element of a pattern.  A literal matches its text; a class matches
\* between min and max characters of its set (max = -1: no upper limit),
\* trying the longest run first when greedy and the shortest first when
\* lazy.  g is the number of the capture group the element lies in (0: none).
\* Under re.I both the literal and the set are compared in lower case.
Lit(str) ==
    [k |-> "lit", s |-> Lower(str), set |-> {}, neg |-> FALSE,
     min |-> 1, max |-> 1, greedy |-> TRUE, g |-> 0]

Cls(S, lo, hi) ==
    [k |-> "set", s |-> "", set |-> {LowerChar(c) : c \in S}, neg |-> FALSE,
     min |-> lo, max |-> hi, greedy |-> TRUE, g |-> 0]

Opt(S) == Cls(S, 0, 1)

Star(S) == Cls(S, 0, -1)

Plus(S) == Cls(S, 1, -1)

\* .*?
LazyAny ==
    [k |-> "set", s |-> "", set |-> NotDot, neg |-> TRUE,
     min |-> 0, max |-> -1, greedy |-> FALSE, g |-> 0]

In(grp, e) == [e EXCEPT !.g = grp]

Accepts(e, c) == (c \in e.set) # e.neg

\* Whether the character at position i lets element k of p begin there (a
\* match of the elements k.. of p from i needs it)
CanStart(p, ls, k, i) ==
    IF k > Len(p) THEN TRUE
    ELSE IF p[k].k = "lit"
            THEN i <= Len(ls) /\ CharAt(ls, i) = SubSeq(p[k].s, 1, 1)
            ELSE p[k].min = 0 \/ (i <= Len(ls) /\ Accepts(p[k], CharAt(ls, i)))

\* Number of consecutive characters of ls from position i that element e
\* accepts, counting no further than e.max.
RunLen(e, ls, i) ==
    Bind(IF e.max >= 0 /\ i + e.max - 1 < Len(ls) THEN i + e.max - 1 ELSE Len(ls),
         LAMBDA last :
            (CHOOSE j \in i..(last + 1) :
                /\ j = last + 1 \/ ~Accepts(e, CharAt(ls, j))
                /\ \A h \in i..(j - 1) : Accepts(e, CharAt(ls, h))) - i)

NoMatch == [ok |-> FALSE, start |-> 0, ends |-> << >>]

\* A match of the rest, r, continued to the left by an element ending at pos
Then(pos, r) == IF r.ok THEN [r EXCEPT !.ends = << pos >> \o @] ELSE NoMatch

\* Of the attempts tries (one for each repetition count c, or one for each
\* start), the successful one Python's matcher comes to first
First(tries, greedy) ==
    Bind({m \in tries : m.r.ok},
         LAMBDA oks :
            IF oks = {} THEN NoMatch
            ELSE Bind(CHOOSE m \in oks :
                         \A o \in oks : IF greedy THEN o.c <= m.c ELSE o.c >= m.c,
                      LAMBDA m : [Then(m.c, m.r) EXCEPT !.start = m.c]))

\* MatchFrom: elements k.. of pattern p against ls from position i.  The
\* answer carries, for each element matched, the position after it.
RECURSIVE MatchFrom(_, _, _, _)
MatchFrom(p, ls, k, i) ==
    IF k > Len(p)
        THEN [ok |-> TRUE, start |-> 0, ends |-> << >>]
        ELSE IF p[k].k = "lit"
                THEN IF i + Len(p[k].s) - 1 <= Len(ls)
                       /\ SubSeq(ls, i, i + Len(p[k].s) - 1) = p[k].s
                        THEN Bind(MatchFrom(p, ls, k + 1, i + Len(p[k].s)),
                                  LAMBDA r : Then(i + Len(p[k].s), r))
                        ELSE NoMatch
                ELSE Bind(RunLen(p[k], ls, i),
                          LAMBDA run :
                             First({[c |-> i + n, r |-> MatchFrom(p, ls, k + 1, i + n)] :
                                      n \in {n \in p[k].min..run :
                                                CanStart(p, ls, k + 1, i + n)}},
                                   p[k].greedy))

\* re.search(p, txt, re.I): the match at the leftmost position that has one
Search(p, txt) ==
    Bind(Lower(txt),
         LAMBDA ls :
            Bind(First({[c |-> i, r |-> MatchFrom(p, ls, 1, i)] :
                          i \in {i \in 1..(Len(ls) + 1) : CanStart(p, ls, 1, i)}},
                       FALSE),
                 LAMBDA m : IF m.ok THEN [m EXCEPT !.ends = Tail(@)] ELSE m))

\* m.group(grp) of a match m of pattern p in txt
Group(m, p, txt, grp) ==
    Bind({k \in 1..Len(p) : p[k].g = grp},
         LAMBDA ks :
            SubSeq(txt,
                   IF Min(ks) = 1 THEN m.start ELSE m.ends[Min(ks) - 1],
                   m.ends[Max(ks)] - 1))

-----------------------------------------------------------------------------
(* str methods and float() *)

\* s.replace(c, '') for a single character c
Remove(s, c) ==
    Build(LAMBDA t, i : IF CharAt(t, i) = c THEN "" ELSE CharAt(t, i), s, 1, Len(s))

\* s.strip()
Strip(s) ==
    Bind({i \in 1..Len(s) : CharAt(s, i) \notin Space},
         LAMBDA ink : IF ink = {} THEN "" ELSE SubSeq(s, Min(ink), Max(ink)))

\* re.sub(r"\s+", " ", txt): each run of white space becomes one blank
CleanText(txt) ==
    Build(LAMBDA t, i :
              IF CharAt(t, i) \notin Space THEN CharAt(t, i)
              ELSE IF i > 1 /\ CharAt(t, i - 1) \in Space THEN "" ELSE " ",
          txt, 1, Len(txt))

\* Number of characters of s that are in S
Count(s, S) == Cardinality({i \in 1..Len(s) : CharAt(s, i) \in S})

\* float(s) returns for a decimal numeral (digits with at most one point and
\* at least one digit) and raises ValueError for '', '.', '1.2.3', ...  The
\* captures the parser converts hold digits and points only.
FloatOk(s) ==
    /\ Count(s, Digits \cup {"."}) = Len(s)
    /\ Count(s, {"."}) <= 1
    /\ Count(s, Digits) >= 1

\* The value of float(s), as the numeral without redundant zeros: two
\* numerals denote the same number exactly when these are equal.
FloatValue(s) ==
    Bind([dot |-> Min({i \in 1..Len(s) : CharAt(s, i) = "."} \cup {Len(s) + 1}),
          sig |-> {i \in 1..Len(s) : CharAt(s, i) \in Digits \ {"0"}}],
         LAMBDA n :
            (IF {i \in n.sig : i < n.dot} = {}
                THEN "0"
                ELSE SubSeq(s, Min({i \in n.sig : i < n.dot}), n.dot - 1))
            \o
            (IF {i \in n.sig : i > n.dot} = {}
                THEN ""
                ELSE "." \o SubSeq(s, n.dot + 1, Max({i \in n.sig : i > n.dot}))))

-----------------------------------------------------------------------------
(* Values of the fields of a record *)

None == [t |-> "none", v |-> ""]

Str(s) == [t |-> "str", v |-> s]

Float(s) == [t |-> "float", v |-> FloatValue(s)]

Zero == Float("0.0")

\* float(s) where the code does not catch ValueError: the value, or a mark
\* that the call raised
ToFloat(s) == IF FloatOk(s) THEN Float(s) ELSE [t |-> "ValueError", v |-> s]

\* The outcome of a call: a value, or an exception raised
Returned(v) == [raised |-> "none", val |-> v]

Raised(e) == [raised |-> e, val |-> None]

-----------------------------------------------------------------------------
(* The output schema *)

IdFields == {"employee_ssn", "employer_ein", "employer_name",
             "employee_first_name", "employee_last_name", "state",
             "employer_state_id"}

MoneyFields == {"wages", "federal_withholding", "social_security_wages",
                "social_security_tax", "medicare_wages", "medicare_tax",
                "state_wages", "state_withholding"}

Fields == IdFields \cup MoneyFields

\* data = {} and data[k] = v
EmptyDict == [k \in {} |-> None]

Put(d, k, v) == (k :> v) @@ d

-----------------------------------------------------------------------------
(* _parse_clean_format *)

ColonSpace == {":"} \cup Space

Alpha == Uppers \cup Lowers

MoneyChars == Digits \cup {",", "."}

\* Employee'?s? / Employer'?s?
Possessive(word) == << Lit(word), Opt({"'"}), Opt({"s"}) >>

\* <n>[.\)]? <label>[:\s]*\$?([0-9,\.]+)
BoxPattern(n, label) ==
    << Lit(n), Opt({".", ")"}), Lit(" " \o label), Star(ColonSpace),
       Opt({"$"}), In(1, Plus(MoneyChars)) >>

CleanPatterns ==
    [employee_ssn |->
        Possessive("Employee") \o
        << Lit(" social security number"), Star(ColonSpace),
           In(1, Cls(Digits \cup {"-"}, 9, -1)) >>,
     employer_ein |->
        << Lit("Employer identification number"), Star(ColonSpace),
           In(1, Cls(Digits \cup {"-"}, 9, -1)) >>,
     employer_name |->
        Possessive("Employer") \o
        << Lit(" name and address:"), Star(Space),
           In(1, Plus(Alpha \cup Digits \cup {" ", ",", ".", "&", "'", "-"})) >>,
     employee_first_name |->
        Possessive("Employee") \o
        << Lit(" name and address:"), Star(Space), In(1, Plus(Alpha)) >>,
     employee_last_name |->
        Possessive("Employee") \o
        << Lit(" name and address:"), Star(Space), Plus(Alpha), Lit(" "),
           In(1, Plus(Alpha)) >>,
     wages |-> BoxPattern("1", "Wages, tips, other compensation"),
     federal_withholding |-> BoxPattern("2", "Federal income tax withheld"),
     social_security_wages |-> BoxPattern("3", "Social security wages"),
     social_security_tax |-> BoxPattern("4", "Social security tax withheld"),
     medicare_wages |-> BoxPattern("5", "Medicare wages and tips"),
     medicare_tax |-> BoxPattern("6", "Medicare tax withheld"),
     state |-> << In(1, Cls(Uppers, 2, 2)), Lit(" "), Cls(Digits, 5, 5) >>]

CleanMoney == {"wages", "federal_withholding", "social_security_wages",
               "social_security_tax", "medicare_wages", "medicare_tax"}

\* extract with None returned for every pattern that does not match
ExtractOrNone(txt, pattern, is_money) ==
    Bind(Search(pattern, txt),
         LAMBDA m :
            IF m.ok
                THEN Bind(Strip(Remove(Remove(Group(m, pattern, txt, 1), ","), "$")),
                          LAMBDA val :
                             IF is_money
                                THEN IF FloatOk(val) THEN Returned(Float(val))
                                                     ELSE Raised("ValueError")
                                ELSE Returned(Str(val)))
                ELSE Returned(None))

\* extract(pattern, is_money) of _parse_clean_format
Extract(txt, pattern, is_money) ==
    Bind(Search(pattern, txt),
         LAMBDA m :
            IF m.ok
                THEN Bind(Strip(Remove(Remove(Group(m, pattern, txt, 1), ","), "$")),
                          LAMBDA val :
                             IF is_money
                                THEN IF FloatOk(val) THEN Returned(Float(val))
                                                     ELSE Raised("ValueError")
                                ELSE Returned(Str(val)))
                ELSE Returned(IF is_money THEN Zero ELSE None))

ParseCleanFormat(txt) ==
    Bind([f \in DOMAIN CleanPatterns |->
             Extract(txt, CleanPatterns[f], f \in CleanMoney)],
         LAMBDA x :
            IF \E f \in DOMAIN x : x[f].raised # "none"
                THEN Raised("ValueError")
                ELSE Returned(
                       [employee_ssn          |-> x.employee_ssn.val,
                        employer_ein          |-> x.employer_ein.val,
                        employer_name         |-> x.employer_name.val,
                        employee_first_name   |-> x.employee_first_name.val,
                        employee_last_name    |-> x.employee_last_name.val,
                        wages                 |-> x.wages.val,
                        federal_withholding   |-> x.federal_withholding.val,
                        social_security_wages |-> x.social_security_wages.val,
                        social_security_tax   |-> x.social_security_tax.val,
                        medicare_wages        |-> x.medicare_wages.val,
                        medicare_tax          |-> x.medicare_tax.val,
                        state                 |-> x.state.val,
                        employer_state_id     |-> None,
                        state_wages           |-> Zero,
                        state_withholding     |-> Zero]))

-----------------------------------------------------------------------------
(* _parse_jumbled_format *)

EinBlockPattern ==
    << Lit("Employer identitication number (EIN) 1 Wages, tips, other compensation 2 Federal income tax withheld"),
       Star(Space), In(1, Plus(Uppers \cup Digits)), Plus(Space),
       In(2, Plus(Digits)), Plus(Space), In(3, Plus(Digits)) >>

\* <caption>\s*([0-9]+)\s+([0-9]+)
PairBlockPattern(caption) ==
    << Lit(caption), Star(Space), In(1, Plus(Digits)), Plus(Space),
       In(2, Plus(Digits)) >>

SsBlockPattern ==
    PairBlockPattern("3 Social security wages 4 Social security tax withheld")

MedBlockPattern ==
    PairBlockPattern("5 Medicare wages and tips 6 Medicare tax withheld")

EmpAddrPattern ==
    << Lit("ZIP code"), Star(Space), In(1, LazyAny),
       Lit("3 Social security wages") >>

SsnBlockPattern ==
    Possessive("Employee") \o
    << Lit(" social security number"), LazyAny,
       In(1, Cls(Digits, 3, 3)), In(1, Lit("-")), In(1, Cls(Digits, 2, 2)),
       In(1, Lit("-")), In(1, Cls(Digits, 4, 4)) >>

\* The three-field block (lines 91-102)
JumbledEin(txt, data) ==
    Bind(Search(EinBlockPattern, txt),
         LAMBDA ein_block :
            IF ein_block.ok
                THEN Put(Put(Put(data,
                         "employer_ein", Str(Group(ein_block, EinBlockPattern, txt, 1))),
                         "wages", ToFloat(Group(ein_block, EinBlockPattern, txt, 2))),
                         "federal_withholding", ToFloat(Group(ein_block, EinBlockPattern, txt, 3)))
                ELSE Put(Put(Put(data, "employer_ein", None), "wages", Zero),
                         "federal_withholding", Zero))

\* A two-field block that takes its first number only
JumbledPairFirstOnly(txt, data, pattern, first, second) ==
    Bind(Search(pattern, txt),
         LAMBDA block :
            Put(Put(data, first,
                    IF block.ok THEN ToFloat(Group(block, pattern, txt, 1)) ELSE Zero),
                second, Zero))

\* A two-field block (lines 104-124)
JumbledPair(txt, data, pattern, first, second) ==
    Bind(Search(pattern, txt),
         LAMBDA block :
            IF block.ok
                THEN Put(Put(data, first, ToFloat(Group(block, pattern, txt, 1))),
                         second, ToFloat(Group(block, pattern, txt, 2)))
                ELSE Put(Put(data, first, Zero), second, Zero))

\* Employer name (lines 126-132)
JumbledEmployer(txt, data) ==
    Bind(Search(EmpAddrPattern, txt),
         LAMBDA emp_addr_block :
            Put(data, "employer_name",
                IF emp_addr_block.ok
                    THEN Str(Strip(Group(emp_addr_block, EmpAddrPattern, txt, 1)))
                    ELSE None))

\* Employee SSN (lines 134-139)
JumbledSsn(txt, data) ==
    Bind(Search(SsnBlockPattern, txt),
         LAMBDA ssn_block :
            Put(data, "employee_ssn",
                IF ssn_block.ok
                    THEN Str(Group(ssn_block, SsnBlockPattern, txt, 1))
                    ELSE None))

\* The fields this format never fills (lines 141-149)
JumbledDefaults(data) ==
    Put(Put(Put(Put(Put(Put(data,
        "employee_first_name", None),
        "employee_last_name", None),
        "state", None),
        "employer_state_id", None),
        "state_wages", Zero),
        "state_withholding", Zero)

ParseJumbledFormat(txt) ==
    Bind(JumbledDefaults(
           JumbledSsn(txt,
             JumbledEmployer(txt,
               JumbledPair(txt,
                 JumbledPair(txt,
                   JumbledEin(txt, EmptyDict),
                   SsBlockPattern, "social_security_wages", "social_security_tax"),
                 MedBlockPattern, "medicare_wages", "medicare_tax")))),
         LAMBDA data :
            IF \E f \in DOMAIN data : data[f].t = "ValueError"
                THEN Raised("ValueError")
                ELSE Returned(data))

-----------------------------------------------------------------------------
(* _parse_fallback_format *)

SsnShape ==
    << In(1, Cls(Digits, 3, 3)), In(1, Lit("-")), In(1, Cls(Digits, 2, 2)),
       In(1, Lit("-")), In(1, Cls(Digits, 4, 4)) >>

EinShape == << In(1, Cls(Digits, 2, 2)), In(1, Lit("-")), In(1, Cls(Digits, 7, 7)) >>

\* ([0-9,]+\.?[0-9]*)
LooseAmount ==
    << In(1, Plus(Digits \cup {","})), In(1, Opt({"."})), In(1, Star(Digits)) >>

\* patterns, in the order of the dict (lines 159-176)
FallbackOrder == << "employee_ssn", "employer_ein", "wages", "federal_withholding" >>

FallbackPatterns ==
    [employee_ssn |-> << SsnShape, << In(1, Cls(Digits, 9, 9)) >> >>,
     employer_ein |->
        << << Lit("EIN"), LazyAny >> \o EinShape,
           << Lit("identification"), LazyAny >> \o EinShape >>,
     wages |->
        << << Lit("Wages"), LazyAny >> \o LooseAmount,
           << Lit("1"), LazyAny, Lit("compensation"), LazyAny >> \o LooseAmount >>,
     federal_withholding |->
        << << Lit("Federal"), LazyAny, Lit("withheld"), LazyAny >> \o LooseAmount,
           << Lit("2"), LazyAny, Lit("Federal"), LazyAny >> \o LooseAmount >>]

FallbackMoney == {"wages", "federal_withholding"}

\* The inner loop over one field's patterns from the j-th on (lines 181-193):
\* the value left in data[field]
RECURSIVE FallbackTry(_, _, _)
FallbackTry(txt, field, j) ==
    IF j > Len(FallbackPatterns[field])
        THEN None
        ELSE Bind(Search(FallbackPatterns[field][j], txt),
                  LAMBDA match :
                     IF match.ok
                        THEN Bind(Strip(Remove(Group(match, FallbackPatterns[field][j],
                                                     txt, 1), ",")),
                                  LAMBDA val :
                                     IF field \in FallbackMoney
                                        THEN IF FloatOk(val)
                                                THEN Float(val)
                                                ELSE FallbackTry(txt, field, j + 1)
                                        ELSE Str(val))
                        ELSE FallbackTry(txt, field, j + 1))

\* One round of the outer loop with lines 196-197 left out
FallbackFieldAsFound(txt, data, field) ==
    Bind(FallbackTry(txt, field, 1), LAMBDA v : Put(data, field, v))

\* One round of the outer loop (lines 179-197)
FallbackField(txt, data, field) ==
    Bind(FallbackTry(txt, field, 1),
         LAMBDA v : Put(data, field,
                        IF field \in FallbackMoney /\ v = None THEN Zero ELSE v))

RECURSIVE FallbackLoop(_, _, _)
FallbackLoop(txt, data, i) ==
    IF i > Len(FallbackOrder)
        THEN data
        ELSE FallbackLoop(txt, FallbackField(txt, data, FallbackOrder[i]), i + 1)

\* The record as the loop of lines 179-197 left it, lines 200-208 left out
WithoutDefaults(data, fields, v) == data

\* for field in [...]: if field not in data: data[field] = v (lines 200-208)
RECURSIVE SetDefaults(_, _, _)
SetDefaults(data, fields, v) ==
    IF fields = << >>
        THEN data
        ELSE Bind(data,
                  LAMBDA d : SetDefaults(IF Head(fields) \notin DOMAIN d
                                            THEN Put(d, Head(fields), v)
                                            ELSE d,
                                         Tail(fields), v))

FallbackIdDefaults ==
    << "employer_name", "employee_first_name", "employee_last_name",
       "state", "employer_state_id" >>

FallbackMoneyDefaults ==
    << "social_security_wages", "social_security_tax", "medicare_wages",
       "medicare_tax", "state_wages", "state_withholding" >>

ParseFallbackFormat(txt) ==
    Returned(SetDefaults(SetDefaults(FallbackLoop(txt, EmptyDict, 1),
                                     FallbackIdDefaults, None),
                         FallbackMoneyDefaults, Zero))

-----------------------------------------------------------------------------
(* _parse_text *)

\* needle in txt (case-sensitive)
Contains(txt, needle) ==
    \E i \in 1..(Len(txt) - Len(needle) + 1) :
        SubSeq(txt, i, i + Len(needle) - 1) = needle

IsClean(txt) == Contains(txt, "Employee's social security number:") /\ Contains(txt, "$")

IsJumbled(txt) == Contains(txt, "Employer identitication number (EIN)")

\* The dispatch with the tests of lines 47 and 50 in the other order
DialectJumbledFirst(txt) ==
    IF IsJumbled(txt) THEN "jumbled"
    ELSE IF IsClean(txt) THEN "clean"
    ELSE "fallback"

\* The dispatch of lines 47-54: the first test that holds decides
Dialect(txt) ==
    IF IsClean(txt) THEN "clean"
    ELSE IF IsJumbled(txt) THEN "jumbled"
    ELSE "fallback"

Handler(name, txt) ==
    CASE name = "clean"    -> ParseCleanFormat(txt)
      [] name = "jumbled"  -> ParseJumbledFormat(txt)
      [] name = "fallback" -> ParseFallbackFormat(txt)

HandlerName(d) ==
    CASE d = "clean"    -> "_parse_clean_format"
      [] d = "jumbled"  -> "_parse_jumbled_format"
      [] d = "fallback" -> "_parse_fallback_format"

\* _parse_text without the test of lines 39-40
ParseTextUnguarded(txt) ==
    Bind(CleanText(txt),
         LAMBDA t :
            Bind(Dialect(t),
                 LAMBDA d : [run |-> << HandlerName(d) >>, out |-> Handler(d, t)]))

\* _parse_text(txt): the handler it calls, if any, and the outcome
ParseText(txt) ==
    IF txt = ""
        THEN [run |-> << >>, out |-> Raised("W2ParseError")]
        ELSE Bind(CleanText(txt),
                  LAMBDA t :
                     Bind(Dialect(t),
                          LAMBDA d : [run |-> << HandlerName(d) >>,
                                      out |-> Handler(d, t)]))

-----------------------------------------------------------------------------
(* Inputs *)

\* Words a text is put together from
Words ==
    { "\n",
      "Employee's social security number: 123-45-6789",
      " 1 Wages, tips, other compensation: ",
      "$50,000.00",
      "$1.2.3",
      "Employer identitication number (EIN) 1 Wages, tips, other compensation 2 Federal income tax withheld ",
      "12 45000 5000" }

\* Longest text, in words
MaxLen == 3

RECURSIVE Sentences(_, _)
Sentences(W, n) ==
    IF n = 0 THEN {""}
    ELSE LET shorter == Sentences(W, n - 1)
         IN  shorter \cup {t \o w : t \in shorter, w \in W}

\* Texts of the kinds of W-2 the parser is written for: a clean form whose
\* wages label has no box number, a jumbled block whose EIN has its hyphen,
\* a page without any field, the two diagnostic labels in another letter
\* case, a jumbled page with nothing between "ZIP code" and box 3, and a
\* jumbled page with the social security block alone and one with the
\* medicare block alone
Phrases ==
    { "Employee's social security number: 123-45-6789 Wages, tips, other compensation: $50,000.00",
      "Employer identitication number (EIN) 1 Wages, tips, other compensation 2 Federal income tax withheld 12-3456789 45000 5000",
      "Wage and Tax Statement",
      "EMPLOYEE'S SOCIAL SECURITY NUMBER: 123-45-6789 $50",
      "employer identitication number (ein) 1 wages, tips, other compensation 2 federal income tax withheld 12 45000 5000",
      "Employer identitication number (EIN) ZIP code 3 Social security wages",
      "Employer identitication number (EIN) 3 Social security wages 4 Social security tax withheld 48000 2976",
      "Employer identitication number (EIN) 5 Medicare wages and tips 6 Medicare tax withheld 48000 696" }

\* The texts _parse_text and the handlers are run on: every text of up to
\* MaxLen words, and every phrase alone, after a word and before a word
Texts ==
    Sentences(Words, MaxLen)
    \cup {w \o p : w \in Words \cup {""}, p \in Phrases}
    \cup {p \o w : w \in Words, p \in Phrases}

\* What extract_text() finds on a page of a PDF
PageTexts ==
    { "",
      "Wages 45000",
      "\nEmployee's social security number: 123-45-6789 $5 \n",
      "Employee's social security number: 123-45-6789 $50",
      "Employee's social security number: 123-45-6789\n1 Wages, tips, other compensation: $50,000.00",
      "Employee's social security number: 123-45-6789\n1 Wages, tips, other compensation: $50,000.00." }

\* What the recognition engine reads from an image
ScanTexts ==
    { "",
      "Employer identitication number (EIN) 1 Wages, tips, other compensation 2 Federal income tax withheld 123456789 45000 5000" }

\* Most pages of a PDF
MaxPages == 1

RECURSIVE PageSeqs(_)
PageSeqs(n) ==
    IF n = 0 THEN {<< >>}
    ELSE PageSeqs(n - 1) \cup
         {Append(ps, t) : ps \in {q \in PageSeqs(n - 1) : Len(q) = n - 1},
                          t \in PageTexts}

\* An uploaded file is a PDF, an image, or neither
Documents ==
    {[kind |-> "pdf", pages |-> ps, scan |-> t] :
        ps \in PageSeqs(MaxPages), t \in ScanTexts}
    \cup {[kind |-> "image", pages |-> << >>, scan |-> t] : t \in ScanTexts}
    \cup {[kind |-> "garbage", pages |-> << >>, scan |-> ""]}

\* The set of line 12 with plain text let in as well
AllowedWithText == {"application/pdf", "image/png", "image/jpeg", "text/plain"}

ALLOWED_TYPES == {"application/pdf", "image/png", "image/jpeg"}

ContentTypes == ALLOWED_TYPES \cup {"text/plain"}

Suffixes == {".pdf", ".png"}

-----------------------------------------------------------------------------
(* State *)

NoReq == [ctype |-> "", suffix |-> "",
          doc |-> [kind |-> "none", pages |-> << >>, scan |-> ""]]

NoRecord == << >>

NoResponse == [status |-> 0, file_type |-> "", parsed_data |-> NoRecord]

Capabilities == [pdfplumber : BOOLEAN, Image : BOOLEAN,
                 pytesseract : BOOLEAN, cv2 : BOOLEAN]

\* The locals of a call of parse_file that has not been made
NoFrame ==
    [pc |-> "none", req |-> NoReq, raw |-> "", rawSrc |-> "none", path |-> "none",
     image |-> {}, rotation |-> "none", calls |-> << >>, fallbackTried |-> FALSE,
     ocr |-> "not_called", exc |-> "none", result |-> NoRecord, modality |-> ""]

Blank ==
    /\ other = NoFrame
    /\ req = NoReq
    /\ raw = ""
    /\ rawSrc = "none"
    /\ path = "none"
    /\ image = {}
    /\ rotation = "none"
    /\ calls = << >>
    /\ fallbackTried = FALSE
    /\ ocr = "not_called"
    /\ exc = "none"
    /\ result = NoRecord
    /\ modality = ""
    /\ tmpFiles = {}
    /\ response = NoResponse

\* The module is imported (lines 7-25) and the route's parser is built
Init ==
    /\ caps \in Capabilities
    /\ pc = "idle"
    /\ Blank

-----------------------------------------------------------------------------
(* upload_w2, w2_routes.py *)

\* Lines 16-22: the content type is checked, then the upload is copied to a
\* named temporary file that is kept (delete=False).  Making or writing the
\* file can fail.
UploadW2 ==
    /\ pc = "idle"
    /\ \E ct \in ContentTypes, sfx \in Suffixes, d \in Documents, io \in {"ok", "fails"} :
        /\ req' = [ctype |-> ct, suffix |-> sfx, doc |-> d]
        /\ calls' = Append(calls, "upload_w2")
        /\ IF ct \notin ALLOWED_TYPES
              THEN /\ response' = [NoResponse EXCEPT !.status = 415]
                   /\ pc' = "done"
                   /\ UNCHANGED << exc, tmpFiles >>
              ELSE IF io = "fails"
                      THEN /\ exc' = "OSError"
                           /\ pc' = "route_except"
                           /\ UNCHANGED << response, tmpFiles >>
                      ELSE /\ tmpFiles' = tmpFiles \cup {"upload"}
                           /\ pc' = "parse_file"
                           /\ UNCHANGED << response, exc >>
    /\ UNCHANGED << other, caps, raw, rawSrc, path, image, rotation, fallbackTried, ocr, result,
                    modality >>

-----------------------------------------------------------------------------
(* parse_file and what it calls, w2_parser.py *)

\* path.lower().endswith('.pdf')
EndsWithPdf(name) ==
    Len(name) >= 4 /\ SubSeq(Lower(name), Len(name) - 3, Len(name)) = ".pdf"

\* Line 271
TakesPdfPath(content_type, name) ==
    content_type = "application/pdf" \/ EndsWithPdf(name)

ParseFile ==
    /\ pc = "parse_file"
    /\ calls' = Append(calls, "parse_file")
    /\ IF TakesPdfPath(req.ctype, req.suffix)
          THEN path' = "pdf" /\ pc' = "_parse_pdf"
          ELSE path' = "image" /\ pc' = "_preprocess_image"
    /\ UNCHANGED << other, caps, req, raw, rawSrc, image, rotation, fallbackTried, ocr, exc,
                    result, modality, tmpFiles, response >>

\* "\n".join(text_parts)
RECURSIVE JoinLines(_)
JoinLines(parts) ==
    IF parts = << >> THEN ""
    ELSE IF Len(parts) = 1 THEN parts[1]
    ELSE parts[1] \o "\n" \o JoinLines(Tail(parts))

\* _parse_pdf (lines 212-223)
ParsePdf ==
    /\ pc = "_parse_pdf"
    /\ calls' = Append(calls, "_parse_pdf")
    /\ IF ~caps.pdfplumber
          THEN /\ exc' = "W2ParseError"
               /\ pc' = "except"
               /\ UNCHANGED << raw, rawSrc >>
          ELSE IF req.doc.kind # "pdf"
                  THEN /\ exc' = "PDFSyntaxError"
                       /\ pc' = "except"
                       /\ UNCHANGED << raw, rawSrc >>
                  ELSE /\ raw' = JoinLines(req.doc.pages)
                       /\ rawSrc' = "text_layer"
                       /\ pc' = "ocr_fallback"
                       /\ UNCHANGED exc
    /\ UNCHANGED << other, caps, req, path, image, rotation, fallbackTried, ocr, result,
                    modality, tmpFiles, response >>

\* Shortest stripped text that is used as it is (line 274)
MinUsableLen == 50

\* Line 274 with a test for an empty text layer in place of a short one
NeedsOcrWhenEmpty(text) == Strip(text) = "" /\ caps.pdfplumber

\* Line 274 without the test of the length
NeedsOcrAlways(text) == caps.pdfplumber

\* Line 274
NeedsOcr(text) == Len(Strip(text)) < MinUsableLen /\ caps.pdfplumber

\* _ocr (lines 255-263): how a call can end.  Image.open is inside the try,
\* so a missing Pillow ends as an error of the engine does.
OcrOutcomes ==
    IF ~caps.pytesseract THEN {"unavailable"}
    ELSE IF ~caps.Image THEN {"failed"}
    ELSE {"failed", "ok"}

\* The OCR fallback keeping the text of the text layer when OCR reads nothing
OcrFallbackUnlessEmpty ==
    /\ pc = "ocr_fallback"
    /\ pc' = "_parse_text"
    /\ IF NeedsOcr(raw)
          THEN /\ fallbackTried' = TRUE
               /\ IF req.doc.pages = << >>
                     THEN UNCHANGED << raw, rawSrc, calls, ocr, tmpFiles >>
                     ELSE \E render \in {"ok", "fails"} :
                            IF render = "fails"
                               THEN UNCHANGED << raw, rawSrc, calls, ocr, tmpFiles >>
                               ELSE /\ tmpFiles' = tmpFiles \cup {"page"}
                                    /\ calls' = Append(calls, "_ocr")
                                    /\ \E o \in OcrOutcomes :
                                         /\ ocr' = o
                                         /\ IF o = "ok"
                                               THEN IF req.doc.scan = ""
                                                       THEN UNCHANGED << raw, rawSrc >>
                                                       ELSE /\ raw' = req.doc.scan
                                                            /\ rawSrc' = "ocr"
                                               ELSE UNCHANGED << raw, rawSrc >>
          ELSE UNCHANGED << raw, rawSrc, calls, fallbackTried, ocr, tmpFiles >>
    /\ UNCHANGED << other, caps, req, path, image, rotation, exc, result, modality, response >>

\* Lines 274-283: the OCR fallback of the PDF path.  Whatever is raised
\* inside is logged and dropped (line 282).
OcrFallback ==
    /\ pc = "ocr_fallback"
    /\ pc' = "_parse_text"
    /\ IF NeedsOcr(raw)
          THEN /\ fallbackTried' = TRUE
               /\ IF req.doc.pages = << >>
                     THEN UNCHANGED << raw, rawSrc, calls, ocr, tmpFiles >>
                     ELSE \E render \in {"ok", "fails"} :
                            IF render = "fails"
                               THEN UNCHANGED << raw, rawSrc, calls, ocr, tmpFiles >>
                               ELSE /\ tmpFiles' = tmpFiles \cup {"page"}
                                    /\ calls' = Append(calls, "_ocr")
                                    /\ \E o \in OcrOutcomes :
                                         /\ ocr' = o
                                         /\ IF o = "ok"
                                               THEN raw' = req.doc.scan /\ rawSrc' = "ocr"
                                               ELSE UNCHANGED << raw, rawSrc >>
          ELSE UNCHANGED << raw, rawSrc, calls, fallbackTried, ocr, tmpFiles >>
    /\ UNCHANGED << other, caps, req, path, image, rotation, exc, result, modality, response >>

\* Angles cv2.minAreaRect reports, in whole degrees: [-90, 0) up to
\* OpenCV 4.5.0, (0, 90] from 4.5.1 on; the values next to where line 238
\* and the limits of the claim change, and one well inside each half
Angles == {-90, -89, -60, -46, -45, -44, -1, 0, 1, 44, 45, 46, 60, 89, 90}

\* Lines 238-241: the angle the image is rotated by
Normalize(angle) == IF angle < -45 THEN -(90 + angle) ELSE -angle

\* _preprocess_image (lines 225-253).  The deskewed image is read back from
\* what cv2 made of the file as uploaded (line 234), not of img.
PreprocessImage ==
    /\ pc = "_preprocess_image"
    /\ calls' = Append(calls, "_preprocess_image")
    /\ IF ~caps.Image
          THEN /\ exc' = "W2ParseError"
               /\ pc' = "except"
               /\ UNCHANGED << image, rotation, tmpFiles >>
          ELSE IF req.doc.kind # "image"
                  THEN /\ exc' = "UnidentifiedImageError"
                       /\ pc' = "except"
                       /\ UNCHANGED << image, rotation, tmpFiles >>
                  ELSE /\ pc' = "_ocr"
                       /\ UNCHANGED exc
                       /\ \E cv \in IF caps.cv2
                                       THEN {"deskewed", "no_coords", "error",
                                             "error_after_tmp"}
                                       ELSE {"absent"} :
                            /\ rotation' \in IF cv = "deskewed"
                                              THEN {Normalize(a) : a \in Angles}
                                              ELSE {rotation}
                            /\ image' = IF cv = "deskewed"
                                           THEN {"grayscale", "deskew"}
                                           ELSE {"grayscale", "denoise", "autocontrast"}
                            /\ tmpFiles' = tmpFiles \cup {"processed"} \cup
                                  (IF cv \in {"deskewed", "error_after_tmp"}
                                      THEN {"deskewed"} ELSE {})
    /\ UNCHANGED << other, caps, req, raw, rawSrc, path, fallbackTried, ocr, result,
                    modality, response >>

\* _parse_image calling _ocr once more after a call that failed
OcrImageRetrying ==
    /\ pc = "_ocr"
    /\ calls' = Append(calls, "_ocr")
    /\ \E o \in OcrOutcomes :
         /\ ocr' = o
         /\ IF o = "ok"
               THEN /\ raw' = req.doc.scan
                    /\ rawSrc' = "ocr"
                    /\ pc' = "_parse_text"
                    /\ UNCHANGED exc
               ELSE IF "_ocr" \notin Range(calls)
                       THEN UNCHANGED << pc, exc, raw, rawSrc >>
                       ELSE /\ exc' = "W2ParseError"
                            /\ pc' = "except"
                            /\ UNCHANGED << raw, rawSrc >>
    /\ UNCHANGED << other, caps, req, path, image, rotation, fallbackTried, result, modality,
                    tmpFiles, response >>

\* _ocr called by _parse_image (line 267)
OcrImage ==
    /\ pc = "_ocr"
    /\ calls' = Append(calls, "_ocr")
    /\ \E o \in OcrOutcomes :
         /\ ocr' = o
         /\ IF o = "ok"
               THEN /\ raw' = req.doc.scan
                    /\ rawSrc' = "ocr"
                    /\ pc' = "_parse_text"
                    /\ UNCHANGED exc
               ELSE /\ exc' = "W2ParseError"
                    /\ pc' = "except"
                    /\ UNCHANGED << raw, rawSrc >>
    /\ UNCHANGED << other, caps, req, path, image, rotation, fallbackTried, result, modality,
                    tmpFiles, response >>

\* The tag parse_file returns with the record (lines 284 and 287)
Modality(branch) == IF branch = "pdf" THEN "pdf" ELSE "image"

\* return self._parse_text(raw), ... (lines 284 and 287)
ParseTextAndReturn ==
    /\ pc = "_parse_text"
    /\ \E r \in {ParseText(raw)} :
         /\ calls' = Append(calls, "_parse_text") \o r.run
         /\ IF r.out.raised = "none"
               THEN /\ result' = r.out.val
                    /\ modality' = Modality(path)
                    /\ pc' = "returned"
                    /\ UNCHANGED exc
               ELSE /\ exc' = r.out.raised
                    /\ pc' = "except"
                    /\ UNCHANGED << result, modality >>
    /\ UNCHANGED << other, caps, req, raw, rawSrc, path, image, rotation, fallbackTried, ocr,
                    tmpFiles, response >>

\* parse_file without its except clause: what was raised goes on as it is
Propagate(e) == e

\* except Exception as e: raise W2ParseError(str(e)) from e (lines 288-290)
Reraise(e) == "W2ParseError"

ParseFileExcept ==
    /\ pc = "except"
    /\ exc' = Reraise(exc)
    /\ pc' = "raised"
    /\ UNCHANGED << other, caps, req, raw, rawSrc, path, image, rotation, calls, fallbackTried,
                    ocr, result, modality, tmpFiles, response >>

-----------------------------------------------------------------------------
(* upload_w2, continued *)

\* Line 24
UploadReturn ==
    /\ pc = "returned"
    /\ response' = [status |-> 200, file_type |-> modality, parsed_data |-> result]
    /\ pc' = "done"
    /\ UNCHANGED << other, caps, req, raw, rawSrc, path, image, rotation, calls, fallbackTried,
                    ocr, exc, result, modality, tmpFiles >>

\* The except clause of lines 28-30 alone, without that of lines 25-27
StatusGeneric(e) == 500

\* The status the except clauses of lines 25-30 answer with
StatusFor(e) == IF e = "W2ParseError" THEN 422 ELSE 500

UploadExcept ==
    /\ pc \in {"raised", "route_except"}
    /\ response' = [NoResponse EXCEPT !.status = StatusFor(exc)]
    /\ pc' = "done"
    /\ UNCHANGED << other, caps, req, raw, rawSrc, path, image, rotation, calls, fallbackTried,
                    ocr, exc, result, modality, tmpFiles >>

Next ==
    \/ UploadW2
    \/ ParseFile
    \/ ParsePdf
    \/ OcrFallback
    \/ PreprocessImage
    \/ OcrImage
    \/ ParseTextAndReturn
    \/ ParseFileExcept
    \/ UploadReturn
    \/ UploadExcept

Spec == Init /\ [][Next]_vars

-----------------------------------------------------------------------------
(* Two calls of parse_file on the route's one parser (w2_routes.py line 10),
   interleaved step by step.  The variables pc .. modality are the locals of
   the call that is running, other holds those of the call that is not;
   the libraries found (caps) and the disk (tmpFiles) are common to both. *)

\* The uploads the two calls are made for: PDFs with a short and with a long
\* text layer, images, and a file that is neither
PairRequests ==
    {[ctype |-> "application/pdf", suffix |-> ".pdf", doc |-> d] :
        d \in {x \in Documents :
                 \/ x.kind = "garbage"
                 \/ /\ x.kind = "pdf"
                    /\ x.pages \in
                         { << "Wages 45000" >>,
                           << "Employee's social security number: 123-45-6789\n1 Wages, tips, other compensation: $50,000.00" >> }}}
    \cup {[ctype |-> "image/png", suffix |-> ".png", doc |-> d] :
             d \in {x \in Documents : x.kind = "image"}}

\* The locals of the running call
Local ==
    [pc |-> pc, req |-> req, raw |-> raw, rawSrc |-> rawSrc, path |-> path,
     image |-> image, rotation |-> rotation, calls |-> calls,
     fallbackTried |-> fallbackTried, ocr |-> ocr, exc |-> exc,
     result |-> result, modality |-> modality]

\* What a call would find when resumed if raw were kept on the parser
\* object instead of in the call's frame
ResumedSharingRaw == [other EXCEPT !.raw = raw, !.rawSrc = rawSrc]

\* What a call finds when it is resumed: its locals as it left them.
\* W2Parser has no attribute and no method assigns to self or to a global
\* (lines 32-290), so nothing of the frame is reachable from another call.
Resumed == other

\* The scheduler suspends the running call and resumes the other one
Switch ==
    /\ other.pc \notin {"none", "returned", "raised"}
    /\ \E f \in {Resumed} :
         /\ pc' = f.pc
         /\ req' = f.req
         /\ raw' = f.raw
         /\ rawSrc' = f.rawSrc
         /\ path' = f.path
         /\ image' = f.image
         /\ rotation' = f.rotation
         /\ calls' = f.calls
         /\ fallbackTried' = f.fallbackTried
         /\ ocr' = f.ocr
         /\ exc' = f.exc
         /\ result' = f.result
         /\ modality' = f.modality
    /\ other' = Local
    /\ UNCHANGED << caps, tmpFiles, response >>

\* Both uploads were stored by upload_w2 and both calls are about to start
InitPair ==
    /\ caps \in {[pdfplumber |-> TRUE, Image |-> TRUE, pytesseract |-> TRUE,
                  cv2 |-> FALSE]}
    /\ pc = "parse_file"
    /\ req \in PairRequests
    /\ other \in {[NoFrame EXCEPT !.pc = "parse_file", !.req = r] : r \in PairRequests}
    /\ raw = ""
    /\ rawSrc = "none"
    /\ path = "none"
    /\ image = {}
    /\ rotation = "none"
    /\ calls = << >>
    /\ fallbackTried = FALSE
    /\ ocr = "not_called"
    /\ exc = "none"
    /\ result = NoRecord
    /\ modality = ""
    /\ tmpFiles = {"upload"}
    /\ response = NoResponse

NextPair ==
    \/ ParseFile
    \/ ParsePdf
    \/ OcrFallback
    \/ PreprocessImage
    \/ OcrImage
    \/ ParseTextAndReturn
    \/ ParseFileExcept
    \/ Switch

SpecPair == InitPair /\ [][NextPair]_vars

-----------------------------------------------------------------------------
(* _parse_text and the three handlers on their own, over all short texts *)

InitText ==
    /\ caps \in {[pdfplumber |-> TRUE, Image |-> TRUE, pytesseract |-> TRUE,
                  cv2 |-> TRUE]}
    /\ pc = "text"
    /\ other = NoFrame
    /\ req = NoReq
    /\ raw \in Texts
    /\ rawSrc = "none"
    /\ path = "none"
    /\ image = {}
    /\ rotation = "none"
    /\ calls = << >>
    /\ fallbackTried = FALSE
    /\ ocr = "not_called"
    /\ exc = "none"
    /\ result = NoRecord
    /\ modality = ""
    /\ tmpFiles = {}
    /\ response = NoResponse

Finish(out) ==
    /\ pc' = "text_done"
    /\ exc' = out.raised
    /\ result' = IF out.raised = "none" THEN out.val ELSE NoRecord
    /\ UNCHANGED << other, caps, req, raw, rawSrc, path, image, rotation, fallbackTried, ocr,
                    modality, tmpFiles, response >>

CallParseText ==
    /\ pc = "text"
    /\ \E r \in {ParseText(raw)} :
         /\ calls' = << "_parse_text" >> \o r.run
         /\ Finish(r.out)

CallHandler ==
    /\ pc = "text"
    /\ \E d \in {"clean", "jumbled", "fallback"} :
         \E out \in {Handler(d, raw)} :
            /\ calls' = << HandlerName(d) >>
            /\ Finish(out)

NextText == CallParseText \/ CallHandler

SpecText == InitText /\ [][NextText]_vars

-----------------------------------------------------------------------------
(* Properties *)

\* The text a handler was given: _parse_text hands on the cleaned text
HandledText == IF calls[1] = "_parse_text" THEN CleanText(raw) ELSE raw

\* C1: the dispatch of _parse_text is first-match-wins in a fixed order.
\* After _parse_text ran on a non-empty text exactly one handler was called:
\* the clean one exactly when the (whitespace-normalised) text holds the
\* label "Employee's social security number:" and a "$", also when it holds
\* the jumbled caption too; the jumbled one exactly when that is not so and
\* the text holds "Employer identitication number (EIN)"; the fallback one
\* exactly when neither holds.  A raw text that holds the label and a "$"
\* always goes to the clean handler.
DispatchFirstMatchWins ==
    (pc = "text_done" /\ calls[1] = "_parse_text" /\ raw # "") =>
        \E t \in {CleanText(raw)} :
            LET clean   == /\ Contains(t, "Employee's social security number:")
                           /\ Contains(t, "$")
                jumbled == Contains(t, "Employer identitication number (EIN)")
            IN  /\ Len(calls) = 2
                /\ (calls[2] = "_parse_clean_format") <=> clean
                /\ (calls[2] = "_parse_jumbled_format") <=> (~clean /\ jumbled)
                /\ (calls[2] = "_parse_fallback_format") <=> (~clean /\ ~jumbled)
                /\ (/\ Contains(raw, "Employee's social security number:")
                    /\ Contains(raw, "$"))
                   => calls[2] = "_parse_clean_format"

\* A text with the label, a "$" and the jumbled caption went to the clean
\* handler alone
CleanWinsOverJumbled ==
    /\ pc = "text_done"
    /\ calls = << "_parse_text", "_parse_clean_format" >>
    /\ Contains(raw, "Employer identitication number (EIN)")

\* C2: whenever one of the three handlers returns, on any text and whichever
\* patterns matched, the record has exactly the 15 fields of the schema.
AllFieldsPresent ==
    (/\ pc = "text_done"
     /\ exc = "none"
     /\ Last(calls) \in {"_parse_clean_format", "_parse_jumbled_format",
                         "_parse_fallback_format"})
    => (DOMAIN result = Fields /\ Cardinality(DOMAIN result) = 15)

\* The fallback handler returned with one identifier found and one not found
FallbackPartlyMatched ==
    /\ pc = "text_done"
    /\ calls = << "_parse_fallback_format" >>
    /\ exc = "none"
    /\ result.employee_ssn # None
    /\ result.employer_ein = None

\* C3: for every non-empty raw text _parse_text returns a record and raises
\* nothing.
NonEmptyTextNeverRaises ==
    (pc = "text_done" /\ calls[1] = "_parse_text" /\ raw # "") =>
        (exc = "none" /\ DOMAIN result = Fields)

\* re.search(p, t, re.I) matches and float() does not take what is captured
\* once "," and "$" are removed
Unparsable(p, t) ==
    Bind(Search(p, t),
         LAMBDA m : /\ m.ok
                    /\ ~FloatOk(Strip(Remove(Remove(Group(m, p, t, 1), ","), "$"))))

\* C4: in every dialect a monetary field whose pattern matched with a capture
\* that is no number gets 0.0 as if the pattern had not matched, and the
\* handler returns.  (The jumbled patterns capture [0-9]+ only.)
UnparsableMoneyIsZero ==
    (pc = "text_done") =>
        /\ (Last(calls) = "_parse_clean_format") =>
              \A f \in CleanMoney :
                 Unparsable(CleanPatterns[f], HandledText)
                    => (exc = "none" /\ result[f] = Zero)
        /\ (Last(calls) = "_parse_fallback_format") =>
              \A f \in FallbackMoney :
                 (\A j \in 1..Len(FallbackPatterns[f]) :
                     \/ ~Search(FallbackPatterns[f][j], HandledText).ok
                     \/ Unparsable(FallbackPatterns[f][j], HandledText))
                    => (exc = "none" /\ result[f] = Zero)

\* C5: when the text obtained for the document is empty, parse_file raises
\* W2ParseError and returns no record, on the image path and on the PDF path
\* with or without the OCR fallback.
EmptyTextRaises ==
    (/\ pc \in {"returned", "raised"}
     /\ "_parse_text" \in Range(calls)
     /\ raw = "")
    => (pc = "raised" /\ exc = "W2ParseError" /\ result = NoRecord)

\* parse_file raised on a PDF whose OCR fallback read an empty text
EmptyAfterOcrFallback ==
    /\ pc = "raised"
    /\ path = "pdf"
    /\ fallbackTried
    /\ ocr = "ok"
    /\ raw = ""
    /\ "_parse_text" \in Range(calls)

\* C6: parse_file ends either returning a complete record with a modality
\* or raising W2ParseError; nothing else is raised and no partial record is
\* returned.
CompleteOrTyped ==
    /\ (pc = "returned") =>
          /\ exc = "none"
          /\ DOMAIN result = Fields
          /\ modality \in {"pdf", "image"}
    /\ (pc = "raised") =>
          /\ exc = "W2ParseError"
          /\ result = NoRecord
          /\ modality = ""

\* parse_file raised after float() failed in the clean handler
ConversionErrorTyped ==
    /\ pc = "raised"
    /\ Last(calls) = "_parse_clean_format"
    /\ exc = "W2ParseError"

\* The text of the text layer of the uploaded PDF
TextLayer == JoinLines(req.doc.pages)

\* C7: on the PDF path, once the text layer was read, the OCR fallback is
\* entered exactly when the stripped text of the text layer is shorter than
\* 50 characters; with 50 or more, _ocr is never called and the record is
\* the one _parse_text makes of the text layer.
FallbackIffShort ==
    (/\ path = "pdf"
     /\ rawSrc # "none"
     /\ pc \in {"_parse_text", "except", "returned", "raised", "done"})
    => /\ fallbackTried <=> (Len(Strip(TextLayer)) < 50)
       /\ (Len(Strip(TextLayer)) >= 50) =>
             /\ "_ocr" \notin Range(calls)
             /\ rawSrc = "text_layer"
             /\ raw = TextLayer
             /\ (pc = "returned") => (result = ParseText(TextLayer).out.val)

\* A PDF whose text layer has 49 characters, stripped, was read by OCR
FallbackJustBelowThreshold ==
    /\ path = "pdf"
    /\ pc = "returned"
    /\ Len(Strip(TextLayer)) = 49
    /\ "_ocr" \in Range(calls)
    /\ rawSrc = "ocr"

\* C8: the modality parse_file returns tells the path the text came by:
\* pdf_text for the text layer, pdf_scanned for the OCR fallback of a PDF,
\* image for the image path.
ModalityTellsPath ==
    (pc = "returned") =>
        modality = (IF path = "image" THEN "image"
                    ELSE IF rawSrc = "ocr" THEN "pdf_scanned"
                    ELSE "pdf_text")

\* C9: when _ocr was called and could not run or failed, parse_file raises
\* W2ParseError and returns no record, on the image path and on the PDF
\* fallback alike.
OcrFailurePropagates ==
    (pc \in {"returned", "raised"} /\ ocr \in {"unavailable", "failed"})
    => (pc = "raised" /\ exc = "W2ParseError" /\ result = NoRecord)

\* C10: no temporary file made during an ingestion is left when the call
\* that made it has returned or raised: none of parse_file's at its end,
\* none at all at the end of upload_w2.
NoTempFileLeft ==
    /\ (pc \in {"returned", "raised"}) => (tmpFiles \ {"upload"} = {})
    /\ (pc = "done") => (tmpFiles = {})

\* C11: _parse_text on the text below selects the clean handler and gives
\* employee_ssn = "123-45-6789" and wages = 50000.00: the wages amount is
\* taken from the label "Wages, tips, other compensation" also when no box
\* number 1 stands before it.
WagesWithoutBoxNumber ==
    (/\ pc = "text_done"
     /\ calls[1] = "_parse_text"
     /\ raw = "Employee's social security number: 123-45-6789 Wages, tips, other compensation: $50,000.00")
    => /\ calls = << "_parse_text", "_parse_clean_format" >>
       /\ exc = "none"
       /\ result.employee_ssn = Str("123-45-6789")
       /\ result.wages = Float("50000.00")

\* C12: in the jumbled dialect the three tokens after the caption run are
\* given, in their order, to employer_ein, wages and federal_withholding,
\* an EIN written with its hyphen included: "12-3456789 45000 5000" after
\* the caption gives "12-3456789", 45000.0 and 5000.0.
HyphenatedEinBlock ==
    (/\ pc = "text_done"
     /\ calls[1] = "_parse_text"
     /\ raw = "Employer identitication number (EIN) 1 Wages, tips, other compensation 2 Federal income tax withheld 12-3456789 45000 5000")
    => /\ calls = << "_parse_text", "_parse_jumbled_format" >>
       /\ exc = "none"
       /\ result.employer_ein = Str("12-3456789")
       /\ result.wages = Float("45000.0")
       /\ result.federal_withholding = Float("5000.0")

\* Neither diagnostic label is in t and no pattern of the fallback handler
\* matches in it
NoFieldIn(t) ==
    /\ ~(Contains(t, "Employee's social security number:") /\ Contains(t, "$"))
    /\ ~Contains(t, "Employer identitication number (EIN)")
    /\ \A f \in DOMAIN FallbackPatterns :
          \A j \in 1..Len(FallbackPatterns[f]) :
             ~Search(FallbackPatterns[f][j], t).ok

\* C13: for a non-empty text without any recognizable field _parse_text
\* selects the fallback handler, which returns, raising nothing, a record
\* whose identifier fields are all None and whose monetary fields are all
\* 0.0.
NoFieldGivesDefaults ==
    (/\ pc = "text_done"
     /\ calls[1] = "_parse_text"
     /\ raw # ""
     /\ NoFieldIn(CleanText(raw)))
    => /\ calls = << "_parse_text", "_parse_fallback_format" >>
       /\ exc = "none"
       /\ DOMAIN result = Fields
       /\ \A f \in IdFields : result[f] = None
       /\ \A f \in MoneyFields : result[f] = Float("0.0")

\* _parse_text returned for a page that has words and no field
PageWithoutFields ==
    /\ pc = "text_done"
    /\ calls = << "_parse_text", "_parse_fallback_format" >>
    /\ raw = "Wage and Tax Statement\n"
    /\ exc = "none"

\* C14: the dispatch of _parse_text does not look at letter case: a text
\* with "social security number:" in any case and a "$" goes to the clean
\* handler, and one with "employer identitication number" in any case that
\* is not clean goes to the jumbled handler.
DispatchIgnoresCase ==
    (pc = "text_done" /\ calls[1] = "_parse_text" /\ raw # "") =>
        \E t \in {Lower(CleanText(raw))} :
            LET clean   == /\ Contains(t, "social security number:")
                           /\ Contains(t, "$")
                jumbled == Contains(t, "employer identitication number")
            IN  /\ clean => (calls = << "_parse_text", "_parse_clean_format" >>)
                /\ (~clean /\ jumbled) =>
                      (calls = << "_parse_text", "_parse_jumbled_format" >>)

\* C15: in every record a handler returns, an identifier field is None or a
\* non-empty string, never the empty string.
IdentifiersNeverEmpty ==
    (pc = "text_done" /\ exc = "none") =>
        \A f \in IdFields :
            \/ result[f] = None
            \/ (result[f].t = "str" /\ result[f].v # "")

\* The pattern of handler h for monetary field f is not found in t (a field
\* h has no pattern for is never found)
NotFound(h, f, t) ==
    CASE h = "_parse_clean_format" ->
            f \in CleanMoney => ~Search(CleanPatterns[f], t).ok
      [] h = "_parse_jumbled_format" ->
            CASE f \in {"wages", "federal_withholding"} ->
                    ~Search(EinBlockPattern, t).ok
              [] f \in {"social_security_wages", "social_security_tax"} ->
                    ~Search(SsBlockPattern, t).ok
              [] f \in {"medicare_wages", "medicare_tax"} ->
                    ~Search(MedBlockPattern, t).ok
              [] OTHER -> TRUE
      [] h = "_parse_fallback_format" ->
            f \in FallbackMoney =>
               \A j \in 1..Len(FallbackPatterns[f]) :
                  ~Search(FallbackPatterns[f][j], t).ok

\* C16: in every record parse_file returns, each of the eight monetary
\* fields is a number that is not negative (a numeral without a sign), and
\* is 0.0 when the field was not found in the text.
MoneyNeverNegative ==
    (pc = "returned") =>
        \A f \in {"wages", "federal_withholding", "social_security_wages",
                  "social_security_tax", "medicare_wages", "medicare_tax",
                  "state_wages", "state_withholding"} :
            /\ result[f].t = "float"
            /\ Count(result[f].v, Digits \cup {"."}) = Len(result[f].v)
            /\ NotFound(Last(calls), f, CleanText(raw)) => result[f] = Float("0.0")

\* parse_file returned a record with one amount found and another not found
AmountFoundAndDefaulted ==
    /\ pc = "returned"
    /\ Last(calls) = "_parse_jumbled_format"
    /\ result.wages = Float("45000")
    /\ result.medicare_wages = Float("0.0")

\* C17: whatever angle in [-90, 90] the detection reports, the angle the
\* image is rotated by lies in (-45, 45]: no image is rotated by more than
\* 45 degrees either way.
RotationWithin45 ==
    ("deskew" \in image) => (rotation > -45 /\ rotation <= 45)

\* C18: every stage of the image normalization is skipped when what it
\* needs is not installed (Pillow for the first three, OpenCV for the
\* fourth): called on an image, _preprocess_image always returns the path of
\* a processed image.
StagesSkippable ==
    (/\ "_preprocess_image" \in Range(calls)
     /\ req.doc.kind = "image")
    => ("processed" \in tmpFiles)

\* parse_file has ended as _parse_text ends on txt
EndsAs(txt) ==
    \E r \in {ParseText(txt).out} :
        IF r.raised = "none"
            THEN pc = "returned" /\ result = r.val
            ELSE pc = "raised" /\ exc = "W2ParseError"

UnsupportedRejectedFirst ==
    (/\ req # NoReq
     /\ req.ctype \notin {"application/pdf", "image/png", "image/jpeg"})
    => /\ pc = "done"
       /\ response.status = 415
       /\ response.parsed_data = NoRecord
       /\ tmpFiles = {}
       /\ calls = << "upload_w2" >>

\* A plain-text upload was answered with 415
PlainTextRejected ==
    /\ pc = "done"
    /\ req.ctype = "text/plain"
    /\ response.status = 415

\* C22: nothing is tried again: within one invocation of parse_file _ocr is
\* called at most once, so after a call of _ocr that failed there is no
\* second one.
OcrAtMostOnce ==
    Cardinality({i \in DOMAIN calls : calls[i] = "_ocr"}) <= 1

\* parse_file has ended after its one call of _ocr failed
EndedAfterFailedOcr ==
    /\ pc = "raised"
    /\ path = "image"
    /\ ocr = "failed"
    /\ Cardinality({i \in DOMAIN calls : calls[i] = "_ocr"}) = 1

\* C23: the image _preprocess_image hands to OCR has gone through all four
\* stages in sequence: when the skew correction has run, the rotated image
\* still carries the grayscale conversion, the median filter and the
\* auto-contrast.
DeskewedKeepsEarlierStages ==
    ("deskew" \in image) =>
        (image = {"grayscale", "denoise", "autocontrast", "deskew"})

\* C24: every call of _ocr within parse_file is preceded, in the same
\* invocation, by a call of _preprocess_image, on the image path and in the
\* OCR fallback of the PDF path alike.
OcrAfterPreprocess ==
    \A i \in DOMAIN calls :
        (calls[i] = "_ocr") =>
            (\E j \in 1 .. (i - 1) : calls[j] = "_preprocess_image")

\* The first pattern of the fallback handler's list for field f that
\* re.search finds in t (0 when none is found)
FirstMatching(f, t) ==
    Min({j \in 1..Len(FallbackPatterns[f]) : Search(FallbackPatterns[f][j], t).ok}
        \cup {Len(FallbackPatterns[f]) + 1}) % (Len(FallbackPatterns[f]) + 1)

\* C25: in the fallback handler the first pattern of a field's list that
\* matches the text determines the field, and no later pattern is tried:
\* an identifier is what that pattern captured, an amount is the number
\* that pattern captured (0.0 when float() does not take it), and a field
\* none of whose patterns matches is None or 0.0.
FirstMatchDetermines ==
    (pc = "text_done" /\ Last(calls) = "_parse_fallback_format") =>
        \A f \in DOMAIN FallbackPatterns :
            \E j \in {FirstMatching(f, HandledText)} :
                IF j = 0
                   THEN result[f] = IF f \in FallbackMoney THEN Zero ELSE None
                   ELSE \E val \in {Strip(Remove(Group(Search(FallbackPatterns[f][j],
                                                              HandledText),
                                                       FallbackPatterns[f][j],
                                                       HandledText, 1), ","))} :
                           result[f] = IF f \in FallbackMoney
                                          THEN IF FloatOk(val) THEN Float(val) ELSE Zero
                                          ELSE Str(val)

\* C26: the path is chosen by the declared content type alone: a document
\* declared image/png or image/jpeg takes the image path (_preprocess_image,
\* then _ocr) and is tagged "image" whatever the suffix of the file it was
\* stored under, and only a document declared application/pdf takes the PDF
\* path.
PathByContentType ==
    (path # "none") =>
        /\ (path = "pdf") <=> (req.ctype = "application/pdf")
        /\ (req.ctype \in {"image/png", "image/jpeg"}) =>
              /\ "_parse_pdf" \notin Range(calls)
              /\ (pc = "returned") => (modality = "image")

\* C27: every failure inside parse_file reaches the HTTP caller as status
\* 422, never as 500: once parse_file was called upload_w2 answers 200 or
\* 422, and an answer of 500 comes from a failure before the call of
\* parse_file (making or writing the copy of the upload).
ParseFailureIs422 ==
    (pc = "done") =>
        /\ ("parse_file" \in Range(calls)) =>
              /\ response.status \in {200, 422}
              /\ (response.status = 422) <=> (exc = "W2ParseError")
        /\ (response.status = 500) =>
              (exc = "OSError" /\ "parse_file" \notin Range(calls))

\* upload_w2 answered 422 for an image when Pillow is not installed
MissingPillowAnswered422 ==
    /\ pc = "done"
    /\ ~caps.Image
    /\ Last(calls) = "_preprocess_image"
    /\ response.status = 422

\* C28: a text of white space only counts as empty: _parse_text raises
\* W2ParseError and returns no record for every raw text that is empty or
\* holds nothing but white space, and raises for no other text.
BlankTextRaises ==
    (pc = "text_done" /\ calls[1] = "_parse_text") =>
        IF Strip(raw) = ""
           THEN exc = "W2ParseError" /\ result = NoRecord
           ELSE exc = "none"

\* The numbers of a two-field block of the jumbled format as they stand in
\* t: both from one match of the pattern, or both 0.0
PairIn(pattern, t) ==
    Bind(Search(pattern, t),
         LAMBDA block :
            IF block.ok
               THEN << ToFloat(Group(block, pattern, t, 1)),
                       ToFloat(Group(block, pattern, t, 2)) >>
               ELSE << Zero, Zero >>)

\* C29: in every record the jumbled handler returns the fields of one
\* caption block are filled together or not at all: employer_ein is None
\* exactly when the EIN block did not match, and then wages and
\* federal_withholding are 0.0, else the three are the three captures of
\* that one match; the two social security fields are the two captures of
\* one match or both 0.0, and so are the two medicare fields, each block
\* whatever the others; the two employee names, state, employer_state_id,
\* state_wages and state_withholding are always None and 0.0.
BlocksFilledTogether ==
    (pc = "text_done" /\ Last(calls) = "_parse_jumbled_format" /\ exc = "none") =>
        /\ \E ein \in {Search(EinBlockPattern, HandledText)} :
              /\ (result.employer_ein = None) <=> ~ein.ok
              /\ IF ein.ok
                    THEN /\ result.employer_ein =
                               Str(Group(ein, EinBlockPattern, HandledText, 1))
                         /\ result.wages =
                               ToFloat(Group(ein, EinBlockPattern, HandledText, 2))
                         /\ result.federal_withholding =
                               ToFloat(Group(ein, EinBlockPattern, HandledText, 3))
                    ELSE /\ result.wages = Float("0.0")
                         /\ result.federal_withholding = Float("0.0")
        /\ << result.social_security_wages, result.social_security_tax >>
              = PairIn(SsBlockPattern, HandledText)
        /\ << result.medicare_wages, result.medicare_tax >>
              = PairIn(MedBlockPattern, HandledText)
        /\ \A f \in {"employee_first_name", "employee_last_name", "state",
                     "employer_state_id"} : result[f] = None
        /\ result.state_wages = Float("0.0")
        /\ result.state_withholding = Float("0.0")

\* The jumbled handler returned a record with the social security block
\* filled and the other two blocks not
SocialSecurityBlockAlone ==
    /\ pc = "text_done"
    /\ Last(calls) = "_parse_jumbled_format"
    /\ result.employer_ein = None
    /\ result.wages = Float("0.0")
    /\ result.social_security_wages = Float("48000")
    /\ result.social_security_tax = Float("2976")
    /\ result.medicare_wages = Float("0.0")

\* C30: on the PDF path with a text layer under the threshold, the outcome
\* of the OCR fallback alone decides the text that is parsed: when the call
\* of _ocr returned, its text replaces that of the text layer, also when it
\* is empty or shorter (so a short text layer that is not empty can end in
\* the empty-text error); when the PDF has no page, or rendering or OCR
\* failed, the text of the text layer is parsed.
FallbackOutcomeDecides ==
    (/\ path = "pdf"
     /\ rawSrc # "none"
     /\ Len(Strip(TextLayer)) < MinUsableLen
     /\ pc \in {"returned", "raised"})
    => IF ocr = "ok"
          THEN raw = req.doc.scan /\ rawSrc = "ocr" /\ EndsAs(req.doc.scan)
          ELSE raw = TextLayer /\ rawSrc = "text_layer" /\ EndsAs(TextLayer)

\* A PDF with a short text layer that is not empty ended in the empty-text
\* error because OCR read nothing
ShortLayerLostToEmptyOcr ==
    /\ path = "pdf"
    /\ pc = "raised"
    /\ TextLayer = "Wages 45000"
    /\ ocr = "ok"
    /\ req.doc.scan = ""
    /\ raw = ""
    /\ exc = "W2ParseError"

\* What parse_file acquires for the request of frame f, given how the call
\* of _ocr made for it (if any) ended: nothing when the file cannot be read
\* on the path it takes, else the text handed to _parse_text
Acquired(f) ==
    IF TakesPdfPath(f.req.ctype, f.req.suffix)
       THEN IF ~caps.pdfplumber \/ f.req.doc.kind # "pdf"
               THEN [ok |-> FALSE, txt |-> ""]
               ELSE [ok |-> TRUE,
                     txt |-> IF /\ Len(Strip(JoinLines(f.req.doc.pages))) < MinUsableLen
                                /\ f.ocr = "ok"
                                THEN f.req.doc.scan
                                ELSE JoinLines(f.req.doc.pages)]
       ELSE IF caps.Image /\ f.req.doc.kind = "image" /\ f.ocr = "ok"
               THEN [ok |-> TRUE, txt |-> f.req.doc.scan]
               ELSE [ok |-> FALSE, txt |-> ""]

\* The call with locals f, if it has ended, has ended as a call for its
\* request alone ends
EndedAsAlone(f) ==
    (f.pc \in {"returned", "raised"}) =>
        \E a \in {Acquired(f)} :
            \E r \in {IF a.ok THEN ParseText(a.txt).out ELSE Raised("W2ParseError")} :
                IF r.raised = "none"
                   THEN /\ f.pc = "returned"
                        /\ f.result = r.val
                        /\ f.modality = (IF TakesPdfPath(f.req.ctype, f.req.suffix)
                                            THEN "pdf" ELSE "image")
                   ELSE /\ f.pc = "raised"
                        /\ f.exc = "W2ParseError"
                        /\ f.result = NoRecord

\* C21: calls of parse_file on the route's one parser are independent: in
\* every interleaving of two calls, for any two documents, each call ends
\* with the record and modality, or the failure, that a call for its own
\* document alone ends with, whatever the other call has done before or in
\* between.
InvocationsIndependent ==
    EndedAsAlone(Local) /\ EndedAsAlone(other)

\* One call has returned while the other, for another document, is
\* suspended between acquiring its text and parsing it
ReturnedWhileOtherSuspended ==
    /\ pc = "returned"
    /\ other.pc = "_parse_text"
    /\ other.req # req
    /\ other.raw # raw
    /\ "_parse_text" \in Range(calls)

=============================================================================
